---- MODULE Spec2Model ----
(***************************************************************************)
(* Model of next-core's DevManifestContentSource (manifest.rs): the route  *)
(* discovery traversal (find_routes), the PageSortKey ordering and dedup,  *)
(* find_pages, create_build_manifest and the ContentSource::get dispatch.  *)
(*                                                                         *)
(* A string is a sequence of one-character strings, so that split('/'),    *)
(* starts_with, ends_with and the byte-wise String ordering are computed   *)
(* as the code computes them.                                              *)
(***************************************************************************)
EXTENDS Integers, Sequences, FiniteSets

----------------------------------------------------------------------------
(* Bounds of the model *)

\* provider nodes are 1..NumNodes
NumNodes == 4
\* at most this many parent->child references in a provider graph
MaxEdges == 2
\* at most this many entries of page_roots
MaxRoots == 2
\* the traversal store is recorded exactly up to this many entries
MaxOutput == 5
\* the multiplicity of a pending child fetch is recorded exactly below this
MaxPending == 3
\* longest list of collected pathnames given to the ordering step
MaxLen == 3

----------------------------------------------------------------------------
(* Strings *)

\* the characters that occur in the modelled routes, in ascending byte order
Alphabet == <<".", "/", "[", "]", "a", "b", "i", "j", "p", "r", "s", "x", "y">>

\* byte order of a character (u8 comparison of String's Ord)
Ord(c) == CHOOSE i \in 1..Len(Alphabet) : Alphabet[i] = c

\* str::starts_with
StartsWith(s, prefix) ==
    /\ Len(prefix) <= Len(s)
    /\ SubSeq(s, 1, Len(prefix)) = prefix

\* str::ends_with
EndsWith(s, suffix) ==
    /\ Len(suffix) <= Len(s)
    /\ SubSeq(s, Len(s) - Len(suffix) + 1, Len(s)) = suffix

\* <String as Ord>::cmp(a, b) = Less : lexicographic by bytes, a proper
\* prefix is smaller
RECURSIVE StrLess(_, _)
StrLess(a, b) ==
    IF b = <<>> THEN FALSE
    ELSE IF a = <<>> THEN TRUE
    ELSE IF Ord(Head(a)) # Ord(Head(b)) THEN Ord(Head(a)) < Ord(Head(b))
    ELSE StrLess(Tail(a), Tail(b))

\* s.split('/') : the segments between the separators; a leading '/'
\* gives a first empty segment
RECURSIVE Split(_)
Split(s) ==
    IF \A i \in 1..Len(s) : s[i] # "/" THEN <<s>>
    ELSE LET k == CHOOSE i \in 1..Len(s) :
                      /\ s[i] = "/"
                      /\ \A j \in 1..(i - 1) : s[j] # "/"
         IN <<SubSeq(s, 1, k - 1)>> \o Split(SubSeq(s, k + 1, Len(s)))

----------------------------------------------------------------------------
(* PageSortKey *)

\* PageSortKey::from without the two bracket cases: the plain alphabetical
\* order the type exists to override
PageSortKeyFromAlphabetical(value) == [tag |-> "Static", text |-> value]

\* PageSortKey::from(&str)
PageSortKeyFrom(value) ==
    IF StartsWith(value, <<"[", "[">>) /\ EndsWith(value, <<"]", "]">>)
    THEN [tag |-> "CatchAll", text |-> <<>>]
    ELSE IF StartsWith(value, <<"[">>) /\ EndsWith(value, <<"]">>)
    THEN [tag |-> "Slug", text |-> <<>>]
    ELSE [tag |-> "Static", text |-> value]

\* discriminant order of the derived Ord: Static < Slug < CatchAll
TagRank(k) ==
    CASE k.tag = "Static" -> 0
      [] k.tag = "Slug" -> 1
      [] k.tag = "CatchAll" -> 2

\* derived Ord of PageSortKey: by variant, two Static by their text
PageSortKeyLess(k1, k2) ==
    IF TagRank(k1) # TagRank(k2) THEN TagRank(k1) < TagRank(k2)
    ELSE k1.tag = "Static" /\ StrLess(k1.text, k2.text)

\* the cached key of a route: s.split('/').map(PageSortKey::from).collect()
SortKey(s) ==
    LET segs == Split(s)
    IN [i \in 1..Len(segs) |-> PageSortKeyFrom(segs[i])]

\* <Vec<PageSortKey> as Ord>::cmp = Less : element-wise, a proper prefix
\* is smaller
RECURSIVE KeyLess(_, _)
KeyLess(a, b) ==
    IF b = <<>> THEN FALSE
    ELSE IF a = <<>> THEN TRUE
    ELSE IF PageSortKeyLess(Head(a), Head(b)) THEN TRUE
    ELSE IF PageSortKeyLess(Head(b), Head(a)) THEN FALSE
    ELSE KeyLess(Tail(a), Tail(b))

----------------------------------------------------------------------------
(* Ordering and dedup (find_routes, lines 82-83) *)

\* an unstable placement: x goes before the elements of equal key
InsertBeforeEqual(sorted, x) ==
    LET later == {i \in 1..Len(sorted) : ~KeyLess(SortKey(sorted[i]), SortKey(x))}
        k == IF later = {} THEN Len(sorted) + 1
             ELSE CHOOSE i \in later : \A j \in later : i <= j
    IN SubSeq(sorted, 1, k - 1) \o <<x>> \o SubSeq(sorted, k, Len(sorted))

\* position at which a stable sort places x among the already sorted
\* elements: after every element whose key is not greater
InsertStable(sorted, x) ==
    LET later == {i \in 1..Len(sorted) : KeyLess(SortKey(x), SortKey(sorted[i]))}
        k == IF later = {} THEN Len(sorted) + 1
             ELSE CHOOSE i \in later : \A j \in later : i <= j
    IN SubSeq(sorted, 1, k - 1) \o <<x>> \o SubSeq(sorted, k, Len(sorted))

\* routes.sort_by_cached_key(..) : a stable sort by SortKey
RECURSIVE SortByCachedKey(_)
SortByCachedKey(routes) ==
    IF routes = <<>> THEN <<>>
    ELSE InsertStable(SortByCachedKey(SubSeq(routes, 1, Len(routes) - 1)),
                      routes[Len(routes)])

\* Vec::dedup : removes consecutive repeated elements, keeping the first
RECURSIVE Dedup(_)
Dedup(v) ==
    IF Len(v) <= 1 THEN v
    ELSE LET init == Dedup(SubSeq(v, 1, Len(v) - 1))
         IN IF init[Len(init)] = v[Len(v)] THEN init
            ELSE Append(init, v[Len(v)])

\* the two statements together
OrderAndDedup(routes) == Dedup(SortByCachedKey(routes))

----------------------------------------------------------------------------
(* The provider graph read by DevManifestContentSource *)

Nodes == 1..NumNodes

\* pathnames a leaf provider may expose
RouteId == <<"/", "[", "i", "]">>
RouteSlug == <<"/", "[", "s", "]">>
RouteApiX == <<"/", "a", "p", "i", "/", "x">>
LeafRoutes == {RouteId, RouteSlug, RouteApiX}

\* no node fails to resolve
NoFailure == [node |-> 0, op |-> "none"]

\* at most one resolution of one node errors
Failures ==
    {NoFailure} \cup [node : Nodes, op : {"children", "pathname"}]

\* a leaf provider: NodeApiContentSource under /api, NodeRenderContentSource
\* otherwise; leaves have no children
Leaf(route) ==
    [kind |-> IF StartsWith(route, <<"/", "a", "p", "i">>) THEN "api" ELSE "render",
     pathname |-> route,
     children |-> <<>>]

\* the ascending sequence of the elements of a set of nodes
RECURSIVE SeqOfSet(_)
SeqOfSet(S) ==
    IF S = {} THEN <<>>
    ELSE LET m == CHOOSE x \in S : \A y \in S : x <= y
         IN <<m>> \o SeqOfSet(S \ {m})

\* a provider of any other kind (combined / conditional sources) that
\* refers to its children
Container(E, n) ==
    [kind |-> "other",
     pathname |-> <<>>,
     children |-> SeqOfSet({e[2] : e \in {d \in E : d[1] = n}})]

\* the sets of at most k references out of the nodes 1..c
RECURSIVE EdgeSets(_, _)
EdgeSets(c, k) ==
    IF k = 0 THEN {{}}
    ELSE LET S == EdgeSets(c, k - 1)
         IN S \cup {s \cup {e} : s \in S, e \in (1..c) \X Nodes}

\* a provider graph of the model: the nodes 1..c are containers that refer
\* to their children as E says, the others are leaves exposing r
ProviderGraph(c, E, r) ==
    [n \in Nodes |-> IF n <= c THEN Container(E, n) ELSE Leaf(r[n])]

\* the nodes that can be reached from the roots through children
RECURSIVE Closure(_, _)
Closure(graph, S) ==
    LET more == S \cup UNION {{graph[n].children[i] : i \in DOMAIN graph[n].children} : n \in S}
    IN IF more = S THEN S ELSE Closure(graph, more)

ReachableIn(graph, roots) == Closure(graph, {roots[i] : i \in DOMAIN roots})

\* number of references to nodes: the entries of page_roots and of all
\* the children lists
RECURSIVE References(_, _, _)
References(graph, roots, n) ==
    IF n = 0 THEN Len(roots)
    ELSE Len(graph[n].children) + References(graph, roots, n - 1)

\* a node that nothing refers to is a leaf exposing RouteSlug, and the
\* resolution that errors, if any, is one of a reachable node: the graphs
\* left out differ from these only in parts that are never read. The
\* graphs have at most as many references as nodes: every tree on the
\* nodes, and the graphs with shared nodes or cycles on fewer nodes.
Canonical(graph, roots, failure) ==
    LET reach == ReachableIn(graph, roots)
    IN /\ References(graph, roots, NumNodes) <= NumNodes
       /\ \A n \in Nodes \ reach : graph[n] = Leaf(RouteSlug)
       /\ failure.node \in reach \cup {0}

----------------------------------------------------------------------------
(* State *)

VARIABLES
    providers,   \* the provider graph: node -> [kind, pathname, children]
    page_roots,  \* DevManifestContentSource.page_roots
    failing,     \* the resolution that errors, if any
    pc,          \* position of the request inside get
    path,        \* the path argument of get
    output,      \* NonDeterministic.output: the nodes inserted so far
    futures,     \* pending get_content_source_children futures, per node
    truncated,   \* output or futures outgrew what the model records
    tick,        \* parity of the fetches completed since then
    extracted,   \* results of the content_source_to_pathname futures, in order
    routes,      \* value returned by find_routes
    pages,       \* value returned by find_pages
    response,    \* what get returned
    input,       \* ordering step alone: the collected pathnames
    once,        \* ordering step alone: the result of the step
    twice,       \* ordering step alone: the step applied to its result
    filtered,    \* ordering step alone: the find_pages filter of the result
    stage,       \* ordering step alone: how far the step was applied
    parked,      \* two requests: the locals of the get call that is not running
    running      \* two requests: which get call the executor is running

vars == <<providers, page_roots, failing, pc, path, output, futures, truncated, tick,
          extracted, routes, pages, response, input, once, twice, filtered, stage,
          parked, running>>

graphVars == <<providers, page_roots, failing>>
requestVars == <<pc, path, output, futures, truncated, tick, extracted, routes, pages,
                 response>>
orderVars == <<input, once, twice, filtered, stage>>
taskVars == <<parked, running>>

PagesManifestPath == "_next/static/development/_devPagesManifest.json"
BuildManifestPath == "_next/static/development/_buildManifest.js"
MiddlewareManifestPath == "_next/static/development/_devMiddlewareManifest.json"
\* the request paths tried: the three well-known ones and two others
Paths == {PagesManifestPath, BuildManifestPath, MiddlewareManifestPath,
          "_next/static/development/_devPagesManifest.js", "index.html"}

\* the resolved Rewrites values of the configurations tried
RewritesValues == {"no rewrites", "some rewrites"}

NoResponse == [status |-> "none"]

\* a content_source_to_pathname future that has not completed
Pending == <<"pending">>
\* Ok(None)
None == <<"none">>
\* Ok(Some(pathname))
Some(pathname) == <<"some", pathname>>

\* the request has not been made
IdleRequest ==
    /\ pc = "idle"
    /\ path = ""
    /\ output = <<>>
    /\ futures = [n \in Nodes |-> 0]
    /\ truncated = FALSE
    /\ tick = FALSE
    /\ extracted = <<>>
    /\ routes = <<>>
    /\ pages = <<>>
    /\ response = NoResponse

\* the locals of a get call that has not been made
IdleLocals ==
    [pc |-> "idle", path |-> "", output |-> <<>>, futures |-> [n \in Nodes |-> 0],
     truncated |-> FALSE, tick |-> FALSE, extracted |-> <<>>, routes |-> <<>>,
     pages |-> <<>>, response |-> NoResponse]

\* one get call, with no other to switch to
OneTask ==
    /\ parked = IdleLocals
    /\ running = 1

\* the ordering step alone is not exercised
IdleOrder ==
    /\ input = <<>>
    /\ once = <<>>
    /\ twice = <<>>
    /\ filtered = <<>>
    /\ stage = "unused"

Init ==
    /\ \E c \in 0..NumNodes :
         \E E \in EdgeSets(c, MaxEdges) :
            \E r \in [(c + 1)..NumNodes -> LeafRoutes] :
               providers = ProviderGraph(c, E, r)
    /\ page_roots \in {[i \in 1..r |-> i] : r \in 1..MaxRoots}
    /\ failing \in Failures
    /\ Canonical(providers, page_roots, failing)
    /\ IdleRequest
    /\ IdleOrder
    /\ OneTask

----------------------------------------------------------------------------
(* find_routes: the traversal *)

\* number of occurrences of x in a sequence
Count(seq, x) == Cardinality({i \in DOMAIN seq : seq[i] = x})

\* a multiplicity as the model records it: MaxPending stands for
\* "MaxPending or more"
Saturate(k) == IF k > MaxPending THEN MaxPending ELSE k

\* children of the roots only: a traversal one level deep
get_content_source_children_of_roots(n) ==
    IF \E i \in DOMAIN page_roots : page_roots[i] = n
    THEN providers[n].children
    ELSE <<>>

\* get_content_source_children(content_source)
get_content_source_children(n) == providers[n].children

\* NonDeterministic::insert for each edge in order: every node handed to
\* the store is pushed to output, whether or not it is already there
InsertAll(out, edges) ==
    LET all == out \o edges
    IN IF Len(all) > MaxOutput THEN SubSeq(all, 1, MaxOutput) ELSE all

\* the futures after the future of node n completed with these edges:
\* one future is pushed for every inserted node
PushFutures(n, edges) ==
    LET rest == IF futures[n] = MaxPending THEN MaxPending ELSE futures[n] - 1
    IN [m \in Nodes |->
          Saturate((IF m = n THEN rest ELSE futures[m]) + Count(edges, m))]

\* content_source_to_pathname(content_source), when nothing errors
content_source_to_pathname(n) ==
    IF providers[n].kind = "api" THEN Some(providers[n].pathname)
    ELSE IF providers[n].kind = "render" THEN Some(providers[n].pathname)
    ELSE None

\* routes.into_iter().flatten().map(clone_value).collect()
RECURSIVE Flatten(_)
Flatten(results) ==
    IF results = <<>> THEN <<>>
    ELSE IF Head(results)[1] = "some"
         THEN <<Head(results)[2]>> \o Flatten(Tail(results))
         ELSE Flatten(Tail(results))

\* what get returns when a `?` propagates an error
ErrorResponse(reason) == [status |-> "error", reason |-> reason]

\* get matching on the file stem: every path named _devPagesManifest or
\* _buildManifest starts find_routes, whatever its extension
GetByStem(p) ==
    /\ pc = "idle"
    /\ path' = p
    /\ IF p \in {PagesManifestPath, BuildManifestPath,
                 "_next/static/development/_devPagesManifest.js"}
       THEN /\ pc' = "visit"
            /\ output' = InsertAll(<<>>, page_roots)
            /\ futures' = [n \in Nodes |-> Saturate(Count(page_roots, n))]
            /\ UNCHANGED response
       ELSE /\ pc' = "done"
            /\ response' =
                 IF p = MiddlewareManifestPath
                 THEN [status |-> "exact", content_type |-> "application/json",
                       body |-> "[]"]
                 ELSE [status |-> "not_found"]
            /\ UNCHANGED <<output, futures>>
    /\ UNCHANGED <<truncated, tick, extracted, routes, pages>>
    /\ UNCHANGED <<graphVars, orderVars, taskVars>>

\* get building the middleware manifest from the providers: it fails when
\* one of them does
GetMiddlewareFromProviders(p) ==
    /\ pc = "idle"
    /\ path' = p
    /\ IF p \in {PagesManifestPath, BuildManifestPath}
       THEN /\ pc' = "visit"
            /\ output' = InsertAll(<<>>, page_roots)
            /\ futures' = [n \in Nodes |-> Saturate(Count(page_roots, n))]
            /\ UNCHANGED response
       ELSE /\ pc' = "done"
            /\ response' =
                 IF p = MiddlewareManifestPath
                 THEN IF failing = NoFailure
                      THEN [status |-> "exact", content_type |-> "application/json",
                            body |-> "[]"]
                      ELSE ErrorResponse("middleware manifest")
                 ELSE [status |-> "not_found"]
            /\ UNCHANGED <<output, futures>>
    /\ UNCHANGED <<truncated, tick, extracted, routes, pages>>
    /\ UNCHANGED <<graphVars, orderVars, taskVars>>

\* get(path): the match on the path; the two manifest paths start
\* find_routes, whose visit() inserts the roots and pushes their futures
Get(p) ==
    /\ pc = "idle"
    /\ path' = p
    /\ IF p \in {PagesManifestPath, BuildManifestPath}
       THEN /\ pc' = "visit"
            /\ output' = InsertAll(<<>>, page_roots)
            /\ futures' = [n \in Nodes |-> Saturate(Count(page_roots, n))]
            /\ UNCHANGED response
       ELSE /\ pc' = "done"
            /\ response' =
                 IF p = MiddlewareManifestPath
                 THEN [status |-> "exact", content_type |-> "application/json",
                       body |-> "[]"]
                 ELSE [status |-> "not_found"]
            /\ UNCHANGED <<output, futures>>
    /\ UNCHANGED <<truncated, tick, extracted, routes, pages>>
    /\ UNCHANGED <<graphVars, orderVars, taskVars>>

\* one get_content_source_children future completes with Ok(edges)
FetchChildren(n) ==
    /\ pc = "visit"
    /\ futures[n] > 0
    /\ failing # [node |-> n, op |-> "children"]
    /\ LET edges == get_content_source_children(n)
           pend == PushFutures(n, edges)
       IN /\ output' = InsertAll(output, edges)
          /\ futures' = pend
          /\ truncated' = (\/ truncated
                           \/ Len(output) + Len(edges) > MaxOutput
                           \/ \E m \in Nodes : pend[m] = MaxPending)
          /\ tick' = IF truncated' THEN ~tick ELSE tick
    /\ UNCHANGED <<pc, path, extracted, routes, pages, response>>
    /\ UNCHANGED <<graphVars, orderVars, taskVars>>

\* one get_content_source_children future completes with Err: the
\* traversal completes with the error, `completed()?` and get's `?`
\* return it
FetchChildrenFails(n) ==
    /\ pc = "visit"
    /\ futures[n] > 0
    /\ failing = [node |-> n, op |-> "children"]
    /\ pc' = "done"
    /\ response' = ErrorResponse("children")
    /\ UNCHANGED <<path, output, futures, truncated, tick, extracted, routes, pages>>
    /\ UNCHANGED <<graphVars, orderVars, taskVars>>

\* no future is left: the traversal completes, and one
\* content_source_to_pathname future is made for every stored node
VisitCompleted ==
    /\ pc = "visit"
    /\ \A n \in Nodes : futures[n] = 0
    /\ ~truncated
    /\ pc' = "join"
    /\ extracted' = [i \in 1..Len(output) |-> Pending]
    /\ UNCHANGED <<path, output, futures, truncated, tick, routes, pages, response>>
    /\ UNCHANGED <<graphVars, orderVars, taskVars>>

\* the i-th content_source_to_pathname future completes with Ok
ExtractPathname(i) ==
    /\ pc = "join"
    /\ i \in DOMAIN extracted
    /\ extracted[i] = Pending
    /\ failing # [node |-> output[i], op |-> "pathname"]
    /\ extracted' = [extracted EXCEPT ![i] = content_source_to_pathname(output[i])]
    /\ UNCHANGED <<pc, path, output, futures, truncated, tick, routes, pages, response>>
    /\ UNCHANGED <<graphVars, orderVars, taskVars>>

\* a failed extraction treated like a node without pathname
ExtractPathnameSkipsFailure(i) ==
    /\ pc = "join"
    /\ i \in DOMAIN extracted
    /\ extracted[i] = Pending
    /\ failing = [node |-> output[i], op |-> "pathname"]
    /\ extracted' = [extracted EXCEPT ![i] = None]
    /\ UNCHANGED <<pc, path, output, futures, truncated, tick, routes, pages, response>>
    /\ UNCHANGED <<graphVars, orderVars, taskVars>>

\* the i-th content_source_to_pathname future completes with Err:
\* try_join returns it
ExtractPathnameFails(i) ==
    /\ pc = "join"
    /\ i \in DOMAIN extracted
    /\ extracted[i] = Pending
    /\ failing = [node |-> output[i], op |-> "pathname"]
    /\ pc' = "done"
    /\ response' = ErrorResponse("pathname")
    /\ UNCHANGED <<path, output, futures, truncated, tick, extracted, routes, pages>>
    /\ UNCHANGED <<graphVars, orderVars, taskVars>>

\* flatten, sort and dedup as soon as one pathname is there, without
\* awaiting the others
FindRoutesReturnsEarly ==
    /\ pc = "join"
    /\ \E i \in DOMAIN extracted : extracted[i] # Pending
    /\ routes' = OrderAndDedup(Flatten(extracted))
    /\ pc' = "routes"
    /\ UNCHANGED <<path, output, futures, truncated, tick, extracted, pages, response>>
    /\ UNCHANGED <<graphVars, orderVars, taskVars>>

\* try_join completes: flatten, sort_by_cached_key, dedup, return
FindRoutesReturns ==
    /\ pc = "join"
    /\ \A i \in DOMAIN extracted : extracted[i] # Pending
    /\ routes' = OrderAndDedup(Flatten(extracted))
    /\ pc' = "routes"
    /\ UNCHANGED <<path, output, futures, truncated, tick, extracted, pages, response>>
    /\ UNCHANGED <<graphVars, orderVars, taskVars>>

----------------------------------------------------------------------------
(* find_pages, create_build_manifest and the responses of get *)

ApiPrefix == <<"/", "a", "p", "i">>

\* a filter that keeps every route
IsPageKeepsAll(s) == TRUE

\* the filter closure of find_pages
IsPage(s) == ~StartsWith(s, ApiPrefix)

\* routes.iter().filter(..).cloned().collect()
FindPages(rs) == SelectSeq(rs, IsPage)

ChunkPrefix ==
    <<"_", "n", "e", "x", "t", "/", "s", "t", "a", "t", "i", "c", "/",
      "c", "h", "u", "n", "k", "s", "/", "p", "a", "g", "e", "s">>
JsExt == <<".", "j", "s">>

\* crate::util::get_asset_path_from_pathname: a pure function of the
\* pathname and the extension, whose result is embedded as it is
get_asset_path_from_pathname(pathname, ext) == pathname \o ext

\* the chunk reference without the fixed prefix
ChunkListNoPrefix(pathname) ==
    <<get_asset_path_from_pathname(pathname, JsExt)>>

\* vec![format!("_next/static/chunks/pages{}", get_asset_path_from_pathname(..))]
ChunkList(pathname) ==
    <<ChunkPrefix \o get_asset_path_from_pathname(pathname, JsExt)>>

\* IndexMap::insert: a new key is appended, a known key keeps its place
\* and takes the new value
IndexMapInsert(map, key, value) ==
    IF \E i \in DOMAIN map : map[i].key = key
    THEN [i \in DOMAIN map |->
            IF map[i].key = key THEN [key |-> key, value |-> value] ELSE map[i]]
    ELSE Append(map, [key |-> key, value |-> value])

\* sorted_pages.iter().map(|pathname| (pathname, vec![..])).collect()
RECURSIVE CollectRoutes(_)
CollectRoutes(sorted_pages) ==
    IF sorted_pages = <<>> THEN <<>>
    ELSE LET pathname == sorted_pages[Len(sorted_pages)]
         IN IndexMapInsert(
                CollectRoutes(SubSeq(sorted_pages, 1, Len(sorted_pages) - 1)),
                pathname, ChunkList(pathname))

\* the BuildManifest struct
BuildManifest(rewrites, sorted_pages) ==
    [rewrites |-> rewrites,
     sorted_pages |-> sorted_pages,
     routes |-> CollectRoutes(sorted_pages)]

\* the pages manifest built from find_pages instead of find_routes
ServePagesManifestFiltered ==
    /\ pc = "routes"
    /\ path = PagesManifestPath
    /\ response' = [status |-> "exact", content_type |-> "application/json",
                    body |-> [pages |-> FindPages(routes)]]
    /\ pc' = "done"
    /\ UNCHANGED <<path, output, futures, truncated, tick, extracted, routes, pages>>
    /\ UNCHANGED <<graphVars, orderVars, taskVars>>

\* get, "_devPagesManifest.json": json!({"pages": pages}) of find_routes
ServePagesManifest ==
    /\ pc = "routes"
    /\ path = PagesManifestPath
    /\ response' = [status |-> "exact", content_type |-> "application/json",
                    body |-> [pages |-> routes]]
    /\ pc' = "done"
    /\ UNCHANGED <<path, output, futures, truncated, tick, extracted, routes, pages>>
    /\ UNCHANGED <<graphVars, orderVars, taskVars>>

\* find_pages returns to create_build_manifest
FindPagesReturns ==
    /\ pc = "routes"
    /\ path = BuildManifestPath
    /\ pages' = FindPages(routes)
    /\ pc' = "pages"
    /\ UNCHANGED <<path, output, futures, truncated, tick, extracted, routes, response>>
    /\ UNCHANGED <<graphVars, orderVars, taskVars>>

\* create_build_manifest builds the manifest and puts it into the
\* template; get serves it as javascript
CreateBuildManifest(rewrites) ==
    /\ pc = "pages"
    /\ response' = [status |-> "exact",
                    content_type |-> "application/javascript; charset=utf-8",
                    body |-> [template |-> "entry/manifest/buildManifest.js",
                              manifest |-> BuildManifest(rewrites, pages)]]
    /\ pc' = "done"
    /\ UNCHANGED <<path, output, futures, truncated, tick, extracted, routes, pages>>
    /\ UNCHANGED <<graphVars, orderVars, taskVars>>

\* next_js_file(..).as_content() is None: the context error is returned
TemplateMissing ==
    /\ pc = "pages"
    /\ response' = ErrorResponse("embedded buildManifest file missing")
    /\ pc' = "done"
    /\ UNCHANGED <<path, output, futures, truncated, tick, extracted, routes, pages>>
    /\ UNCHANGED <<graphVars, orderVars, taskVars>>

Next ==
    \/ \E p \in Paths : Get(p)
    \/ \E n \in Nodes : FetchChildren(n)
    \/ \E n \in Nodes : FetchChildrenFails(n)
    \/ VisitCompleted
    \/ \E i \in 1..MaxOutput : ExtractPathname(i)
    \/ \E i \in 1..MaxOutput : ExtractPathnameFails(i)
    \/ FindRoutesReturns
    \/ ServePagesManifest
    \/ FindPagesReturns
    \/ \E rw \in RewritesValues : CreateBuildManifest(rw)
    \/ TemplateMissing

Spec == Init /\ [][Next]_vars

\* every pending future is eventually polled to completion and the code
\* between two awaits runs
FairInit == Init /\ Len(page_roots) = 1
FairSpec == FairInit /\ [][Next]_vars /\ WF_vars(Next)

----------------------------------------------------------------------------
(* The ordering step and the find_pages filter alone, on any collected list *)

RouteRoot == <<"/">>
RouteA == <<"/", "a">>
RouteB == <<"/", "b">>
RouteCatchAll == <<"/", "[", "[", "r", "]", "]">>
RouteAB == <<"/", "a", "/", "b">>
RouteASlug == <<"/", "a", "/", "[", "i", "]">>
RouteSlugA == <<"/", "[", "i", "]", "/", "a">>
RouteApi == <<"/", "a", "p", "i">>
RouteApiary == <<"/", "a", "p", "i", "a", "r", "y">>

CollectedRoutes ==
    {RouteRoot, RouteA, RouteB, RouteId, RouteSlug, RouteCatchAll, RouteAB,
     RouteASlug, RouteSlugA, RouteApi, RouteApiX, RouteApiary}

\* the sequences over S of length at most n
RECURSIVE SeqsUpTo(_, _)
SeqsUpTo(S, n) ==
    IF n = 0 THEN {<<>>}
    ELSE LET shorter == SeqsUpTo(S, n - 1)
         IN shorter \cup {Append(q, x) : q \in shorter, x \in S}

OrderInit ==
    /\ providers = [n \in Nodes |-> Container({}, n)]
    /\ page_roots = <<>>
    /\ failing = NoFailure
    /\ IdleRequest
    /\ OneTask
    /\ input \in SeqsUpTo(CollectedRoutes, MaxLen)
    /\ once = <<>>
    /\ twice = <<>>
    /\ filtered = <<>>
    /\ stage = "collected"

\* lines 82-83 applied to the collected pathnames
OrderOnce ==
    /\ stage = "collected"
    /\ once' = OrderAndDedup(input)
    /\ stage' = "ordered"
    /\ UNCHANGED <<input, twice, filtered>>
    /\ UNCHANGED <<graphVars, requestVars, taskVars>>

\* lines 82-83 applied to their own result
OrderTwice ==
    /\ stage = "ordered"
    /\ twice' = OrderAndDedup(once)
    /\ stage' = "reordered"
    /\ UNCHANGED <<input, once, filtered>>
    /\ UNCHANGED <<graphVars, requestVars, taskVars>>

\* the filter of find_pages applied to the ordered routes
FilterPages ==
    /\ stage = "reordered"
    /\ filtered' = FindPages(once)
    /\ stage' = "filtered"
    /\ UNCHANGED <<input, once, twice>>
    /\ UNCHANGED <<graphVars, requestVars, taskVars>>

OrderNext == OrderOnce \/ OrderTwice \/ FilterPages

OrderSpec == OrderInit /\ [][OrderNext]_vars

----------------------------------------------------------------------------
(* What the traversal has done so far *)

Reachable == ReachableIn(providers, page_roots)

\* completed calls of get_content_source_children on node n
ChildrenFetched(n) == Count(output, n) - futures[n]

\* completed calls of content_source_to_pathname on node n
PathnameExtracted(n) ==
    Cardinality({i \in DOMAIN extracted : output[i] = n /\ extracted[i] # Pending})

\* some node is its own descendant
HasCycle ==
    \E n \in Reachable :
        n \in ReachableIn(providers, providers[n].children)

\* the model records the store and the futures exactly unless the graph
\* has a cycle that can be reached
ExactUnlessCyclic == truncated => HasCycle

\* find_routes has returned, with a value or an error
FindRoutesFinished == pc \in {"routes", "pages", "done"}

----------------------------------------------------------------------------
(* Claims *)

\* C1: during one traversal every reachable node has its children fetched
\* at most once and its pathname extracted at most once, also when it is
\* reachable through several parents or is both a root and a child
\* (stated for the graphs without cycles, where the traversal ends).
C1_EachNodeAtMostOnce ==
    (~HasCycle /\ ~truncated) =>
        \A n \in Nodes : ChildrenFetched(n) <= 1 /\ PathnameExtracted(n) <= 1

\* C2: under fair scheduling, route discovery once started eventually
\* finishes with a result or an error, on every provider graph, cycles
\* included.
C2_DiscoveryTerminates == (pc = "visit") ~> FindRoutesFinished


\* the elements of a sequence
Elems(seq) == {seq[i] : i \in DOMAIN seq}

\* the pathnames exposed by the leaf providers among the nodes S
LeafPathnames(S) ==
    {providers[n].pathname : n \in {m \in S : providers[m].kind \in {"api", "render"}}}

\* the store when the futures complete in the order they were pushed
RECURSIVE FifoVisit(_, _)
FifoVisit(out, k) ==
    IF k > Len(out) THEN out
    ELSE FifoVisit(out \o providers[out[k]].children, k + 1)

\* the routes find_routes returns for that order
FifoRoutes ==
    LET fifo == FifoVisit(page_roots, 1)
    IN OrderAndDedup(Flatten([i \in 1..Len(fifo) |-> content_source_to_pathname(fifo[i])]))

\* C3: for a fixed provider graph the route sequence find_routes returns
\* is the same for every completion order of the child fetches: it is the
\* one of the first-in-first-out order (stated for the graphs in which
\* every node is met once).
C3_OutputIndependentOfOrder ==
    (pc = "routes" /\ \A n \in Nodes : Count(output, n) <= 1) =>
        routes = FifoRoutes

ManifestPaths == {PagesManifestPath, BuildManifestPath}

\* C4: when the children or the pathname of a reachable node cannot be
\* resolved, find_routes never returns a route list, no manifest is
\* served, and a finished manifest request has ended in an error.
C4_FailureIsFatal ==
    failing.node \in Reachable =>
        /\ pc \notin {"routes", "pages"}
        /\ routes = <<>> /\ pages = <<>>
        /\ (pc = "done" /\ path \in ManifestPaths) => response.status = "error"

\* a manifest request ended in an error after the pathname of another node
\* had been extracted
C4_Witness ==
    /\ failing.node \in Reachable
    /\ pc = "done"
    /\ path \in ManifestPaths
    /\ response.status = "error"
    /\ \E i \in DOMAIN extracted : extracted[i] # Pending /\ extracted[i] # None

\* C5: the result of sort-then-dedup contains every distinct collected
\* pathname exactly once: none is lost and none occurs twice.
C5_EveryRouteExactlyOnce ==
    stage # "collected" =>
        /\ Elems(once) = Elems(input)
        /\ \A i, j \in DOMAIN once : i # j => once[i] # once[j]

\* the shape of a segment, read off its brackets
Shape(seg) ==
    IF Len(seg) >= 2 /\ seg[1] = "[" /\ seg[2] = "["
       /\ seg[Len(seg)] = "]" /\ seg[Len(seg) - 1] = "]" THEN "catch-all"
    ELSE IF Len(seg) >= 1 /\ seg[1] = "[" /\ seg[Len(seg)] = "]" THEN "slug"
    ELSE "static"

\* two segments with the same tag
SameTag(a, b) == Shape(a) = Shape(b) /\ (Shape(a) = "static" => a = b)

\* segment a is static and b is dynamic, or a is a slug and b a catch-all
ShapeBefore(a, b) ==
    \/ Shape(a) = "static" /\ Shape(b) \in {"slug", "catch-all"}
    \/ Shape(a) = "slug" /\ Shape(b) = "catch-all"

\* C6: of two ordered routes whose tags agree before depth d and that
\* have at depth d a static segment against a slug or catch-all, or a slug
\* against a catch-all, the one with the static segment (the slug) comes
\* first; and ["/[i]", "/a", "/[[r]]"] gives ["/a", "/[i]", "/[[r]]"].
C6_StaticBeforeDynamic ==
    stage # "collected" =>
        /\ \A i, j \in DOMAIN once :
             LET a == Split(once[i])
                 b == Split(once[j])
             IN \A d \in 1..Len(a) :
                    (/\ d <= Len(b)
                     /\ \A e \in 1..(d - 1) : SameTag(a[e], b[e])
                     /\ ShapeBefore(a[d], b[d])) => i < j
        /\ input = <<RouteId, RouteA, RouteCatchAll>> =>
             once = <<RouteA, RouteId, RouteCatchAll>>

\* the example was ordered, its static route moving in front of the slug
C6_Witness ==
    /\ stage = "ordered"
    /\ input = <<RouteId, RouteA, RouteCatchAll>>
    /\ once[1] = RouteA

\* C7: the ordering-and-dedup step applied to its own result returns
\* that result.
C7_Idempotent == stage \in {"reordered", "filtered"} => twice = once

\* the step was applied twice to a list it had to reorder and shorten
C7_Witness ==
    /\ stage = "reordered"
    /\ Len(once) < Len(input)
    /\ \E i \in DOMAIN once : once[i] # input[i]
    /\ \E i, j \in DOMAIN once :
          i # j /\ ~KeyLess(SortKey(once[i]), SortKey(once[j]))
                /\ ~KeyLess(SortKey(once[j]), SortKey(once[i]))

\* the first segment of the route is `api`
FirstSegmentIsApi(r) ==
    LET segs == Split(r)
    IN Len(segs) >= 2 /\ segs[2] = <<"a", "p", "i">>

\* get served the build manifest
BuildManifestServed == response.status = "exact" /\ path = BuildManifestPath

\* get served the pages manifest
PagesManifestServed == response.status = "exact" /\ path = PagesManifestPath

\* C8: no route whose first segment is `api` is in the list find_pages
\* returns, nor in sortedPages or among the keys of the build manifest.
C8_NoApiRouteInPages ==
    /\ \A i \in DOMAIN pages : ~FirstSegmentIsApi(pages[i])
    /\ BuildManifestServed =>
          LET m == response.body.manifest
          IN /\ \A i \in DOMAIN m.sorted_pages : ~FirstSegmentIsApi(m.sorted_pages[i])
             /\ \A k \in DOMAIN m.routes : ~FirstSegmentIsApi(m.routes[k].key)

\* a build manifest with pages was served although an api route was found
C8_Witness ==
    /\ BuildManifestServed
    /\ \E r \in Elems(routes) : FirstSegmentIsApi(r)
    /\ response.body.manifest.sorted_pages # <<>>
    /\ response.body.manifest.routes # <<>>

C10_OneChunkPerPage ==
    BuildManifestServed =>
        LET m == response.body.manifest
        IN /\ \A i \in DOMAIN pages : \E k \in DOMAIN m.routes : m.routes[k].key = pages[i]
           /\ \A k \in DOMAIN m.routes :
                /\ Len(m.routes[k].value) = 1
                /\ m.routes[k].value[1] =
                     ChunkPrefix \o get_asset_path_from_pathname(m.routes[k].key, JsExt)

\* a build manifest with the chunk lists of two pages was served
C10_Witness ==
    /\ BuildManifestServed
    /\ Len(response.body.manifest.routes) >= 2

\* the keys of the flattened route-to-chunks mapping, in serialization order
ManifestKeys(m) == [k \in DOMAIN m.routes |-> m.routes[k].key]

\* C11: in every build manifest the keys of the route-to-chunks mapping
\* are, in order and in number, the entries of sortedPages, and
\* sortedPages is the list find_pages returned.
C11_KeysAreSortedPages ==
    BuildManifestServed =>
        LET m == response.body.manifest
        IN /\ m.sorted_pages = pages
           /\ ManifestKeys(m) = m.sorted_pages

\* the three paths get answers
WellKnownPaths == {PagesManifestPath, BuildManifestPath, MiddlewareManifestPath}

\* no step of a route discovery has been taken for the request
NoDiscoveryStarted ==
    /\ output = <<>>
    /\ extracted = <<>>
    /\ \A n \in Nodes : futures[n] = 0
    /\ routes = <<>>
    /\ pages = <<>>

\* C12: a request for a path other than the three well-known ones is
\* answered not-found at once, without starting a route discovery and
\* never with a manifest; each well-known path is served its own
\* artifact and no other.
C12_OnlyWellKnownPathsServed ==
    /\ (pc # "idle" /\ path \notin WellKnownPaths) =>
          /\ pc = "done"
          /\ response = [status |-> "not_found"]
          /\ NoDiscoveryStarted
    /\ response.status = "exact" =>
          CASE path = PagesManifestPath ->
                  /\ response.content_type = "application/json"
                  /\ DOMAIN response.body = {"pages"}
            [] path = BuildManifestPath ->
                  /\ response.content_type = "application/javascript; charset=utf-8"
                  /\ DOMAIN response.body = {"template", "manifest"}
            [] path = MiddlewareManifestPath ->
                  /\ response.content_type = "application/json"
                  /\ response.body = "[]"
            [] OTHER -> FALSE
    /\ (path \in WellKnownPaths /\ pc = "done") => response.status # "not_found"

\* a path that differs from a well-known one in its extension only was
\* answered not-found
C12_Witness ==
    /\ pc = "done"
    /\ path = "_next/static/development/_devPagesManifest.js"
    /\ response.status = "not_found"
    /\ NoDiscoveryStarted

\* C13: a request for _devMiddlewareManifest.json is answered at once
\* with the body [] as json, whatever the provider graph holds: its
\* roots, its routes and its failing providers play no part.
C13_MiddlewareManifestConstant ==
    (pc # "idle" /\ path = MiddlewareManifestPath) =>
        /\ pc = "done"
        /\ response = [status |-> "exact", content_type |-> "application/json",
                       body |-> "[]"]
        /\ NoDiscoveryStarted

\* the middleware manifest was served on a graph with a reachable provider
\* that fails
C13_Witness ==
    /\ path = MiddlewareManifestPath
    /\ response.status = "exact"
    /\ response.body = "[]"
    /\ failing.node \in Reachable

\* the route is not an api route
NotApiRoute(r) == ~FirstSegmentIsApi(r)

\* C14: the list find_pages returns is the order-preserving subsequence
\* of the routes whose first segment is not exactly `api`: a route such as
\* /apiary, whose first segment only begins with api, is kept.
C14_PagesAreTheNonApiRoutes ==
    stage = "filtered" => filtered = SelectSeq(once, NotApiRoute)

\* find_routes has returned Ok
FindRoutesSucceeded ==
    \/ pc \in {"routes", "pages"}
    \/ /\ pc = "done"
       /\ path \in ManifestPaths
       /\ \/ response.status = "exact"
          \/ response = ErrorResponse("embedded buildManifest file missing")

\* C15: when find_routes succeeds, the set of the routes it returns is
\* the set of the pathnames of the leaf providers reachable from
\* page_roots at any depth; unreachable providers are never visited, and
\* the other providers give no route but have their children fetched.
C15_RoutesAreReachablePathnames ==
    FindRoutesSucceeded =>
        /\ Elems(routes) = LeafPathnames(Reachable)
        /\ Elems(output) = Reachable
        /\ \A n \in Reachable : ChildrenFetched(n) >= 1 /\ PathnameExtracted(n) >= 1
        /\ \A i \in DOMAIN extracted :
              providers[output[i]].kind = "other" => extracted[i] = None

\* find_routes returned the pathname of a leaf two levels below a root
\* and left out the pathname of an unreachable provider
C15_Witness ==
    /\ pc = "routes"
    /\ \E n \in Nodes \ Reachable : providers[n].pathname \notin Elems(routes)
    /\ \E n \in Reachable :
          /\ providers[n].kind \in {"api", "render"}
          /\ providers[n].pathname \in Elems(routes)
          /\ \A i \in DOMAIN page_roots :
                /\ page_roots[i] # n
                /\ n \notin Elems(providers[page_roots[i]].children)

\* C16: within one find_routes invocation the sort begins only when the
\* traversal has no future left, every reachable node is in the store
\* with its children fetched, and every pathname extraction has
\* completed.
C16_SortAfterDiscovery ==
    [][(pc # "routes" /\ pc' = "routes") =>
          /\ \A n \in Nodes : futures[n] = 0
          /\ \A n \in Reachable : n \in Elems(output) /\ ChildrenFetched(n) >= 1
          /\ DOMAIN extracted = DOMAIN output
          /\ \A i \in DOMAIN extracted : extracted[i] # Pending]_vars

\* the sort ran on the pathnames of a traversal that had fetched the
\* children of a container below a root
C16_Witness ==
    /\ pc = "routes"
    /\ routes # <<>>
    /\ \E n \in Reachable :
          /\ providers[n].kind = "other"
          /\ providers[n].children # <<>>
          /\ \A i \in DOMAIN page_roots : page_roots[i] # n

----------------------------------------------------------------------------
(* Two get calls on the same DevManifestContentSource, interleaved *)

\* the locals of the get call that is running
Locals ==
    [pc |-> pc, path |-> path, output |-> output, futures |-> futures,
     truncated |-> truncated, tick |-> tick, extracted |-> extracted,
     routes |-> routes, pages |-> pages, response |-> response]

\* the store of the traversal kept in one place for both get calls: at an
\* await the executor changes the call, and the store stays
SwitchSharingStore ==
    /\ parked' = [Locals EXCEPT !.output = parked.output]
    /\ pc' = parked.pc
    /\ path' = parked.path
    /\ output' = output
    /\ futures' = parked.futures
    /\ truncated' = parked.truncated
    /\ tick' = parked.tick
    /\ extracted' = parked.extracted
    /\ routes' = parked.routes
    /\ pages' = parked.pages
    /\ response' = parked.response
    /\ running' = 3 - running
    /\ UNCHANGED <<graphVars, orderVars>>

\* at an await the executor leaves the running get call, whose locals
\* stay in its future, and polls the other one
Switch ==
    /\ parked' = Locals
    /\ pc' = parked.pc
    /\ path' = parked.path
    /\ output' = parked.output
    /\ futures' = parked.futures
    /\ truncated' = parked.truncated
    /\ tick' = parked.tick
    /\ extracted' = parked.extracted
    /\ routes' = parked.routes
    /\ pages' = parked.pages
    /\ response' = parked.response
    /\ running' = 3 - running
    /\ UNCHANGED <<graphVars, orderVars>>

\* a root that refers to two leaves, with any pathnames and any failure
ConcInit ==
    /\ \E r \in [2..NumNodes -> LeafRoutes] :
          providers = ProviderGraph(1, {<<1, 2>>, <<1, 3>>}, r)
    /\ page_roots = <<1>>
    /\ failing \in Failures
    /\ Canonical(providers, page_roots, failing)
    /\ IdleRequest
    /\ IdleOrder
    /\ OneTask

ConcNext == Next \/ Switch

ConcSpec == ConcInit /\ [][ConcNext]_vars

\* what get(p) can return when it is the only call, on a graph whose
\* traversal meets every node once
AloneResponses(p) ==
    IF p = MiddlewareManifestPath
    THEN {[status |-> "exact", content_type |-> "application/json", body |-> "[]"]}
    ELSE IF p \notin ManifestPaths THEN {[status |-> "not_found"]}
    ELSE IF failing # NoFailure THEN {ErrorResponse(failing.op)}
    ELSE IF p = PagesManifestPath
    THEN {[status |-> "exact", content_type |-> "application/json",
           body |-> [pages |-> FifoRoutes]]}
    ELSE {ErrorResponse("embedded buildManifest file missing")}
         \cup {[status |-> "exact",
                content_type |-> "application/javascript; charset=utf-8",
                body |-> [template |-> "entry/manifest/buildManifest.js",
                          manifest |-> BuildManifest(rw, FindPages(FifoRoutes))]] :
               rw \in RewritesValues}

\* the get call with these locals, if it has returned, returned what it
\* returns alone
ReturnsAsAlone(t) == t.pc = "done" => t.response \in AloneResponses(t.path)

====
